---- MODULE Spec2Model ----
(***************************************************************************)
(* gpu_layout: std140 / std430 byte layout of values.                      *)
(*                                                                         *)
(* The model follows src/gpu_layout/src/lib.rs.  A GpuBytes accumulator is *)
(* a record [bytes, alignment, owned]: `bytes` the Cow<[u8]> contents,     *)
(* `owned` whether the Cow is Cow::Owned.  The layout type parameter L is  *)
(* a string, "Std140" or "Std430".  One serialization session is driven    *)
(* under both layouts at once with the same calls, so that the two         *)
(* policies can be compared call by call.                                  *)
(*                                                                         *)
(* A value that implements AsGpuBytes is a tree                            *)
(*    [kind, alignment, data, children]                                    *)
(* kind "i32"      a 32-bit scalar, data = <<x>>                           *)
(* kind "vec"      a glam vector, data = its 32-bit components             *)
(* kind "mat"      a glam matrix, children = its column vectors            *)
(* kind "array"    a slice / array / Vec, children = its elements          *)
(* kind "struct"   a #[derive(AsGpuBytes)] struct, children = its fields   *)
(* kind "gpubytes" a GpuBytes used as a value, data = its bytes            *)
(***************************************************************************)
EXTENDS Integers, Sequences, FiniteSets, TLC

\* buf    the accumulator, one per layout
\* prev   the accumulator as it was before the last step
\* trace  the calls made on the accumulator since it was created
\* rest   the elements the running write_array loop has still to visit
\* placed for the last write_array call, per layout, the index of each non-empty
\*        element written so far and the offset at which its bytes begin
\* ret    the slice returned by the last call, if it was as_slice
\* origin the constructor of the accumulator
\* panic  the call that panicked, NoCall while none has
VARIABLES buf, prev, trace, rest, placed, ret, origin, panic

vars == <<buf, prev, trace, rest, placed, ret, origin, panic>>

\* Calls made on one accumulator before the model starts a new one.
MaxOps == 3

Layouts == {"Std140", "Std430"}

(***************************************************************************)
(* Values                                                                  *)
(***************************************************************************)
Value(kind, alignment, data, children) ==
    [kind |-> kind, alignment |-> alignment, data |-> data, children |-> children]

Scalar(x) == Value("i32", 4, <<x>>, <<>>)

Vec(xs) == Value("vec", IF Len(xs) = 2 THEN 8 ELSE 16, xs, <<>>)

Mat(cols) == Value("mat", 0, <<>>, cols)

Array(elems) == Value("array", 0, <<>>, elems)

Struct(fields) == Value("struct", 0, <<>>, fields)

NoData == Value("none", 0, <<>>, <<>>)

\* n zero bytes: std::iter::repeat_n(0u8, padding)
repeat_n(n) == [k \in 1..n |-> 0]

\* bytemuck::bytes_of of one 32-bit word on a little-endian target (two's
\* complement: \div rounds down and % is non-negative).
word_bytes(x) ==
    << x % 256, (x \div 256) % 256, (x \div 65536) % 256, (x \div 16777216) % 256 >>

RECURSIVE bytes_of(_)
bytes_of(xs) ==
    IF xs = <<>> THEN <<>> ELSE word_bytes(Head(xs)) \o bytes_of(Tail(xs))

(***************************************************************************)
(* GpuBytes                                                                *)
(***************************************************************************)
empty == [bytes |-> <<>>, alignment |-> 4, owned |-> TRUE]

from_slice(data, alignment) == [bytes |-> data, alignment |-> alignment, owned |-> FALSE]

\* A GpuBytes passed where an `&impl AsGpuBytes` is expected.
AsValue(g) == Value("gpubytes", g.alignment, g.bytes, <<>>)

\* usize::next_multiple_of
next_multiple_of(n, m) == IF n % m = 0 THEN n ELSE n + (m - (n % m))

\* extend with the contents replaced by the new bytes instead of extended.
extend_overwrites(b, more) == [b EXCEPT !.bytes = more, !.owned = TRUE]

\* Cow::to_mut followed by an extension of the vector.
extend(b, more) == [b EXCEPT !.bytes = @ \o more, !.owned = TRUE]

\* align_to with the padding computed as alignment - offset % alignment: a full
\* `alignment` of zero bytes when the offset is already aligned.
align_to_pads_aligned(b, alignment) ==
    extend(b, repeat_n(alignment - (Len(b.bytes) % alignment)))

\* align_to without the `if padding != 0` guard: to_mut() whatever the padding.
align_to_always_owns(b, alignment) ==
    extend(b, repeat_n(next_multiple_of(Len(b.bytes), alignment) - Len(b.bytes)))

align_to(b, alignment) ==
    LET offset == Len(b.bytes)
        padding == next_multiple_of(offset, alignment) - offset
    IN  IF padding # 0 THEN extend(b, repeat_n(padding)) ELSE b

\* align with the alignment of an empty accumulator in place of the current one.
align_to_initial(b) == align_to(b, 4)

align(b) == align_to(b, b.alignment)

\* element_alignment with the rounding to 16 applied under both layouts.
element_alignment_always_16(L, alignment) == next_multiple_of(alignment, 16)

\* element_alignment with the two layouts exchanged.
element_alignment_swapped(L, alignment) ==
    IF L = "Std430" THEN next_multiple_of(alignment, 16) ELSE alignment

element_alignment(L, alignment) ==
    IF L = "Std140" THEN next_multiple_of(alignment, 16) ELSE alignment

RECURSIVE as_gpu_bytes(_, _), write(_, _, _), write_each(_, _, _), write_array(_, _, _)

\* write_bytes with the alignment overwritten instead of raised.
write_bytes_overwrites_alignment(b, data) ==
    IF data.bytes = <<>>
    THEN b
    ELSE extend(align_to([b EXCEPT !.alignment = data.alignment], data.alignment),
                data.bytes)

\* write_bytes without the early return for empty data.
write_bytes_no_skip(b, data) ==
    extend(align_to([b EXCEPT !.alignment = IF @ >= data.alignment THEN @ ELSE data.alignment],
                    data.alignment),
           data.bytes)

\* The body of GpuLayout::write once `data` is the GpuBytes of the value.
write_bytes(b, data) ==
    IF data.bytes = <<>>
    THEN b
    ELSE extend(align_to([b EXCEPT !.alignment = IF @ >= data.alignment THEN @ ELSE data.alignment],
                         data.alignment),
                data.bytes)

\* write with the 16-byte rounding of the Std140 array rule applied to every
\* value written under Std140.
write_rounds_under_std140(L, b, data) ==
    LET d == as_gpu_bytes(data, L)
    IN  write_bytes(b, [d EXCEPT !.alignment = element_alignment(L, @)])

write(L, b, data) == write_bytes(b, as_gpu_bytes(data, L))

\* `L::write(&mut buf, ...)` for each column / field in order.
write_each(L, b, items) ==
    IF items = <<>> THEN b ELSE write_each(L, write(L, b, Head(items)), Tail(items))

\* One iteration of the loop of write_array: the element's own GpuBytes is
\* padded to the element alignment, then written as a value.
padded_elem(L, elem) ==
    LET e == as_gpu_bytes(elem, L)
    IN  align_to(e, element_alignment(L, e.alignment))

write_elem(L, b, elem) == write(L, b, AsValue(padded_elem(L, elem)))

write_array(L, b, data) ==
    IF data = <<>> THEN b ELSE write_array(L, write_elem(L, b, Head(data)), Tail(data))

\* mat_as_gpu_bytes with the columns written as an array.
mat_as_array(v, L) == write_array(L, empty, v.children)

\* primitive_impl_gpu_bytes!, columns arm: the columns written one by one.
mat_as_gpu_bytes(v, L) == write_each(L, empty, v.children)

\* struct_as_gpu_bytes with the accumulator aligned before it is returned.
struct_finalized(v, L) == align(write_each(L, empty, v.children))

\* The impl that #[derive(AsGpuBytes)] generates: the fields written one by one.
struct_as_gpu_bytes(v, L) == write_each(L, empty, v.children)

as_gpu_bytes(v, L) ==
    CASE v.kind \in {"i32", "vec"} -> from_slice(bytes_of(v.data), v.alignment)
      [] v.kind = "mat"            -> mat_as_gpu_bytes(v, L)
      [] v.kind = "array"          -> write_array(L, empty, v.children)
      [] v.kind = "struct"         -> struct_as_gpu_bytes(v, L)
      [] v.kind = "gpubytes"       -> from_slice(v.data, v.alignment)

(***************************************************************************)
(* Panics: `offset.next_multiple_of(alignment)` in align_to divides by     *)
(* `alignment` and panics when it is 0.  Each predicate says whether the   *)
(* operation of the same name reaches that panic.                          *)
(***************************************************************************)
align_to_panics(b, alignment) == alignment = 0

align_panics(b) == align_to_panics(b, b.alignment)

RECURSIVE as_gpu_bytes_panics(_, _), write_panics(_, _, _), write_each_panics(_, _, _),
          write_array_panics(_, _, _)

\* write_bytes_panics with an empty value reported as an error.
write_bytes_panics_on_empty(b, data) ==
    data.bytes = <<>> \/ align_to_panics(b, data.alignment)

write_bytes_panics(b, data) ==
    data.bytes # <<>> /\ align_to_panics(b, data.alignment)

write_panics(L, b, data) ==
    as_gpu_bytes_panics(data, L) \/ write_bytes_panics(b, as_gpu_bytes(data, L))

write_each_panics(L, b, items) ==
    /\ items # <<>>
    /\ \/ write_panics(L, b, Head(items))
       \/ write_each_panics(L, write(L, b, Head(items)), Tail(items))

padded_elem_panics(L, elem) ==
    \/ as_gpu_bytes_panics(elem, L)
    \/ LET e == as_gpu_bytes(elem, L)
       IN  align_to_panics(e, element_alignment(L, e.alignment))

write_elem_panics(L, b, elem) ==
    padded_elem_panics(L, elem) \/ write_panics(L, b, AsValue(padded_elem(L, elem)))

write_array_panics(L, b, data) ==
    /\ data # <<>>
    /\ \/ write_elem_panics(L, b, Head(data))
       \/ write_array_panics(L, write_elem(L, b, Head(data)), Tail(data))

as_gpu_bytes_panics(v, L) ==
    CASE v.kind \in {"mat", "struct"} -> write_each_panics(L, empty, v.children)
      [] v.kind = "array"             -> write_array_panics(L, empty, v.children)
      [] OTHER                        -> FALSE

(***************************************************************************)
(* Inputs                                                                  *)
(***************************************************************************)
S == Scalar(-1)
V2 == Vec(<<1, -1>>)
V3 == Vec(<<-1, -1, -1>>)
V4 == Vec(<<-1, 1, -1, 1>>)
M2 == Mat(<<V2, V2>>)
M3 == Mat(<<V3, V3, V3>>)
M4 == Mat(<<V4, V4, V4, V4>>)
TestA == Struct(<<V3, S>>)
TestB == Struct(<<Array(<<S, S>>)>>)
Raw(data, alignment) == AsValue(from_slice(data, alignment))
Empty16 == Raw(<<>>, 16)
\* Values whose alignment is 0, not a power of two.
Bad == Raw(<<1>>, 0)
BadEmpty == Raw(<<>>, 0)

Values == {S, V2, V3, M2, M3, M4, TestA, TestB, Empty16, Bad}

Arrays == { <<S, S>>,
            <<V3, V3>>,
            <<Raw(<<1, 2, 3, 4>>, 4), Raw(<<5, 6, 7, 8>>, 8)>>,
            <<Raw(bytes_of(<<-1, -1, -1>>), 16), Empty16, Raw(<<7>>, 1)>>,
            <<BadEmpty>>,
            <<>> }

Alignments == {0, 4, 16}

Slices == { [data |-> <<9, 9, 9, 9>>, alignment |-> 4],
            [data |-> bytes_of(<<-1, 1, -1>>), alignment |-> 16],
            [data |-> <<9>>, alignment |-> 0] }

(***************************************************************************)
(* The session                                                             *)
(***************************************************************************)
Call(op, data, alignment) == [op |-> op, data |-> data, alignment |-> alignment]

NoRet == [L \in Layouts |-> <<>>]

NonePlaced == [L \in Layouts |-> <<>>]

Idle == rest = <<>>

NoCall == Call("none", NoData, 0)

Panicked == panic # NoCall

\* The call panics: nothing but `panic` is recorded of it.
Panics(call) ==
    /\ panic' = call
    /\ UNCHANGED <<buf, prev, trace, rest, placed, ret, origin>>

Init ==
    /\ buf = [L \in Layouts |-> empty]
    /\ prev = [L \in Layouts |-> empty]
    /\ trace = <<>>
    /\ rest = <<>>
    /\ placed = NonePlaced
    /\ ret = NoRet
    /\ origin = "empty"
    /\ panic = NoCall

\* GpuBytes::empty(): a fresh accumulator.
Empty ==
    /\ Idle
    /\ ~Panicked
    /\ buf' = [L \in Layouts |-> empty]
    /\ prev' = [L \in Layouts |-> empty]
    /\ trace' = <<>>
    /\ ret' = NoRet
    /\ placed' = NonePlaced
    /\ origin' = "empty"
    /\ UNCHANGED <<rest, panic>>

\* GpuBytes::from_slice(data, alignment): a fresh accumulator that borrows.
FromSlice(data, alignment) ==
    /\ Idle
    /\ ~Panicked
    /\ buf' = [L \in Layouts |-> from_slice(data, alignment)]
    /\ prev' = buf'
    /\ trace' = <<>>
    /\ ret' = NoRet
    /\ placed' = NonePlaced
    /\ origin' = "from_slice"
    /\ UNCHANGED <<rest, panic>>

\* buf.write(&data) / L::write(&mut buf, &data)
Write(data) ==
    /\ Idle
    /\ ~Panicked
    /\ Len(trace) < MaxOps
    /\ IF \E L \in Layouts : write_panics(L, buf[L], data)
       THEN Panics(Call("write", data, 0))
       ELSE /\ buf' = [L \in Layouts |-> write(L, buf[L], data)]
            /\ prev' = buf
            /\ trace' = Append(trace, Call("write", data, 0))
            /\ ret' = NoRet
            /\ UNCHANGED <<rest, placed, origin, panic>>

\* L::write_array(&mut buf, &data): entry of the loop.
WriteArray(data) ==
    /\ Idle
    /\ ~Panicked
    /\ Len(trace) < MaxOps
    /\ rest' = data
    /\ prev' = buf
    /\ trace' = Append(trace, Call("write_array", Array(data), 0))
    /\ placed' = NonePlaced
    /\ ret' = NoRet
    /\ UNCHANGED <<buf, origin, panic>>

\* One iteration of the loop of write_array.
WriteArrayElem ==
    /\ rest # <<>>
    /\ ~Panicked
    /\ IF \E L \in Layouts : write_elem_panics(L, buf[L], Head(rest))
       THEN Panics(trace[Len(trace)])
       ELSE /\ buf' = [L \in Layouts |-> write_elem(L, buf[L], Head(rest))]
            /\ prev' = buf
            /\ rest' = Tail(rest)
            /\ placed' = [L \in Layouts |->
                    LET elem == padded_elem(L, Head(rest))
                    IN  IF elem.bytes = <<>>
                        THEN placed[L]
                        ELSE Append(placed[L],
                                    [i |-> Len(trace[Len(trace)].data.children) - Len(rest) + 1,
                                     at |-> Len(buf'[L].bytes) - Len(elem.bytes)])]
            /\ UNCHANGED <<trace, ret, origin, panic>>

\* L::align_to(&mut buf, alignment)
AlignTo(alignment) ==
    /\ Idle
    /\ ~Panicked
    /\ Len(trace) < MaxOps
    /\ IF \E L \in Layouts : align_to_panics(buf[L], alignment)
       THEN Panics(Call("align_to", NoData, alignment))
       ELSE /\ buf' = [L \in Layouts |-> align_to(buf[L], alignment)]
            /\ prev' = buf
            /\ trace' = Append(trace, Call("align_to", NoData, alignment))
            /\ ret' = NoRet
            /\ UNCHANGED <<rest, placed, origin, panic>>

\* buf.as_slice(): L::align(self), then &self.bytes
AsSlice ==
    /\ Idle
    /\ ~Panicked
    /\ Len(trace) < MaxOps
    /\ IF \E L \in Layouts : align_panics(buf[L])
       THEN Panics(Call("as_slice", NoData, 0))
       ELSE /\ buf' = [L \in Layouts |-> align(buf[L])]
            /\ prev' = buf
            /\ trace' = Append(trace, Call("as_slice", NoData, 0))
            /\ ret' = [L \in Layouts |-> buf'[L].bytes]
            /\ UNCHANGED <<rest, placed, origin, panic>>

Next ==
    \/ Empty
    \/ \E s \in Slices : FromSlice(s.data, s.alignment)
    \/ \E data \in Values : Write(data)
    \/ \E data \in Arrays : WriteArray(data)
    \/ WriteArrayElem
    \/ \E alignment \in Alignments : AlignTo(alignment)
    \/ AsSlice

Spec == Init /\ [][Next]_vars

(***************************************************************************)
(* Vocabulary of the properties                                            *)
(***************************************************************************)
\* ceil(n / a) * a
RoundUp(n, a) == ((n + a - 1) \div a) * a

AllZero(s) == \A k \in DOMAIN s : s[k] = 0

MaxOf(ns) == CHOOSE x \in ns : \A y \in ns : y <= x

Last == trace[Len(trace)]

LastIs(op) == trace # <<>> /\ Last.op = op

\* The elements of call k that the loop of write_array has visited.
Visited(k) ==
    LET elems == trace[k].data.children
    IN  IF k = Len(trace) THEN SubSeq(elems, 1, Len(elems) - Len(rest)) ELSE elems

\* The serialized values handed to the single-value write rule so far.
Merged(L) ==
    UNION { CASE trace[k].op = "write" -> {as_gpu_bytes(trace[k].data, L)}
              [] trace[k].op = "write_array" ->
                     {padded_elem(L, Visited(k)[j]) : j \in DOMAIN Visited(k)}
              [] OTHER -> {}
            : k \in DOMAIN trace }

\* The element the loop of write_array has just visited, and its index.
ElemIndex == Len(Last.data.children) - Len(rest)

Elem == Last.data.children[ElemIndex]

AfterElem == LastIs("write_array") /\ ElemIndex >= 1

(***************************************************************************)
(* C1                                                                      *)
(***************************************************************************)
\* C1 as stated: on an accumulator created by empty(), the alignment is at
\* least 4, no step lowers it, and it is the maximum of 4 and the alignment of
\* every value written so far.
C1_AlignmentIsMaxOfAllWritten ==
    origin = "empty" =>
        \A L \in Layouts :
            /\ buf[L].alignment >= 4
            /\ buf[L].alignment >= prev[L].alignment
            /\ buf[L].alignment = MaxOf({4} \cup {g.alignment : g \in Merged(L)})

\* C1 amended: on an accumulator created by empty(), the alignment is at least
\* 4, no step lowers it, and it is the maximum of 4 and the alignment of every
\* non-empty value written so far (an empty value is skipped together with
\* the alignment it declares).
C1_AlignmentIsMaxOfNonEmptyWritten ==
    origin = "empty" =>
        \A L \in Layouts :
            /\ buf[L].alignment >= 4
            /\ buf[L].alignment >= prev[L].alignment
            /\ buf[L].alignment =
                   MaxOf({4} \cup {g.alignment : g \in {h \in Merged(L) : h.bytes # <<>>}})

\* An empty value declaring alignment 16 and a 2-component vector have been
\* written: the alignment is 8.
C1_Witness ==
    /\ origin = "empty"
    /\ Len(trace) = 3
    /\ trace[1].data = S
    /\ trace[2].data = Empty16
    /\ trace[3].data = V2
    /\ trace[3].op = "write"
    /\ \A L \in Layouts : buf[L].alignment = 8 /\ prev[L].alignment = 4

(***************************************************************************)
(* C2                                                                      *)
(***************************************************************************)
\* C2: as_slice on an accumulator created by empty() returns bytes whose
\* length is a multiple of the accumulator's alignment, and leaves that
\* alignment as it was.
C2_FinalLengthIsMultipleOfAlignment ==
    (origin = "empty" /\ LastIs("as_slice")) =>
        \A L \in Layouts :
            /\ Len(ret[L]) % prev[L].alignment = 0
            /\ buf[L].alignment = prev[L].alignment
            /\ ret[L] = buf[L].bytes

\* as_slice had to pad: a 2-component vector, a scalar, then as_slice.
C2_Witness ==
    /\ origin = "empty"
    /\ LastIs("as_slice")
    /\ Len(trace) = 3
    /\ trace[1].data = V2
    /\ trace[2].data = S
    /\ \A L \in Layouts : Len(prev[L].bytes) = 12 /\ Len(ret[L]) = 16

(***************************************************************************)
(* C3, C4, C5: the array rules                                             *)
(***************************************************************************)
\* The elements of the last write_array call.
Elems == Last.data.children

\* Bytes at..to of the accumulator (offsets from 0, `to` excluded).
Slice(L, at, to) == SubSeq(buf[L].bytes, at + 1, to)

\* The element the loop has just visited was not empty and has been placed.
JustPlaced(L) ==
    /\ AfterElem
    /\ placed[L] # <<>>
    /\ placed[L][Len(placed[L])].i = ElemIndex

LastPlaced(L) == placed[L][Len(placed[L])]

\* C3 as stated: under Std140 every non-empty element of write_array begins at
\* an offset that is a multiple of 16, the accumulator having been padded to
\* the element's alignment rounded up to 16, whatever the accumulator held.
C3_Std140ElementsStartOn16 ==
    LastIs("write_array") =>
        /\ \A j \in DOMAIN placed["Std140"] :
               LET p == placed["Std140"][j]
                   raw == as_gpu_bytes(Elems[p.i], "Std140").bytes
               IN  /\ p.at % 16 = 0
                   /\ Slice("Std140", p.at, p.at + Len(raw)) = raw
        /\ JustPlaced("Std140") =>
               LastPlaced("Std140").at =
                   RoundUp(Len(prev["Std140"].bytes),
                           RoundUp(as_gpu_bytes(Elem, "Std140").alignment, 16))

\* C4 as stated: under Std140 every element of write_array contributes its raw
\* bytes followed by zero bytes, a multiple of 16 bytes in all, and consecutive
\* elements of one array start a multiple of 16 bytes apart; two 4-byte
\* scalars give 32 bytes, each scalar followed by 12 zero bytes.
C4_Std140SlotsAreMultiplesOf16 ==
    LastIs("write_array") =>
        /\ JustPlaced("Std140") =>
               LET at == LastPlaced("Std140").at
                   end == Len(buf["Std140"].bytes)
                   raw == as_gpu_bytes(Elem, "Std140").bytes
               IN  /\ (end - at) % 16 = 0
                   /\ Slice("Std140", at, at + Len(raw)) = raw
                   /\ AllZero(Slice("Std140", at + Len(raw), end))
        /\ \A j \in DOMAIN placed["Std140"] :
               j > 1 => (placed["Std140"][j].at - placed["Std140"][j - 1].at) % 16 = 0
        /\ (origin = "empty" /\ Len(trace) = 1 /\ Elems = <<S, S>> /\ rest = <<>>) =>
               buf["Std140"].bytes =
                   bytes_of(<<-1>>) \o repeat_n(12) \o bytes_of(<<-1>>) \o repeat_n(12)

\* C5 as stated: under Std430 each non-empty element of write_array begins at
\* the smallest multiple of its natural alignment that is not below the end of
\* the previous element's bytes, only zero bytes lie between the two, and two
\* 4-byte scalars give exactly 8 bytes.
C5_Std430ElementsFollowRawEnd ==
    LastIs("write_array") =>
        /\ \A j \in DOMAIN placed["Std430"] :
               LET p == placed["Std430"][j]
                   e == as_gpu_bytes(Elems[p.i], "Std430")
               IN  /\ Slice("Std430", p.at, p.at + Len(e.bytes)) = e.bytes
                   /\ j > 1 =>
                          LET q == placed["Std430"][j - 1]
                              qend == q.at + Len(as_gpu_bytes(Elems[q.i], "Std430").bytes)
                          IN  /\ p.at = RoundUp(qend, e.alignment)
                              /\ AllZero(Slice("Std430", qend, p.at))
        /\ (origin = "empty" /\ Len(trace) = 1 /\ Elems = <<S, S>> /\ rest = <<>>) =>
               buf["Std430"].bytes = bytes_of(<<-1, -1>>)

\* C5 amended: under Std430 each non-empty element of write_array begins at
\* the smallest multiple of its natural alignment that is not below the end of
\* the previous element's bytes once these are padded to a multiple of the
\* previous element's own natural alignment; only zero bytes lie between the
\* two, and two 4-byte scalars give exactly 8 bytes.
C5_Std430ElementsFollowPaddedEnd ==
    LastIs("write_array") =>
        /\ \A j \in DOMAIN placed["Std430"] :
               LET p == placed["Std430"][j]
                   e == as_gpu_bytes(Elems[p.i], "Std430")
               IN  /\ Slice("Std430", p.at, p.at + Len(e.bytes)) = e.bytes
                   /\ j > 1 =>
                          LET q == placed["Std430"][j - 1]
                              d == as_gpu_bytes(Elems[q.i], "Std430")
                              qend == q.at + Len(d.bytes)
                          IN  /\ p.at = RoundUp(q.at + RoundUp(Len(d.bytes), d.alignment),
                                                e.alignment)
                              /\ AllZero(Slice("Std430", qend, p.at))
        /\ (origin = "empty" /\ Len(trace) = 1 /\ Elems = <<S, S>> /\ rest = <<>>) =>
               buf["Std430"].bytes = bytes_of(<<-1, -1>>)

\* A 12-byte element of alignment 16, an empty element and a 1-byte element
\* of alignment 1: the last begins at 16, after 4 zero bytes.
C5_Witness ==
    /\ LastIs("write_array")
    /\ origin = "empty"
    /\ Len(trace) = 1
    /\ Len(Elems) = 3
    /\ rest = <<>>
    /\ placed["Std430"] = <<[i |-> 1, at |-> 0], [i |-> 3, at |-> 16]>>
    /\ Slice("Std430", 12, 16) = repeat_n(4)
    /\ Slice("Std430", 16, 17) = <<7>>

(***************************************************************************)
(* C6, C7: the single-value write rule                                     *)
(***************************************************************************)
\* C6: writing a value whose bytes are empty changes nothing of the
\* accumulator (bytes, alignment, borrowed or owned), whatever alignment the
\* value declares, also when the value is an element of write_array.
C6_EmptyWriteIsNoOp ==
    \A L \in Layouts :
        /\ (LastIs("write") /\ as_gpu_bytes(Last.data, L).bytes = <<>>) => buf[L] = prev[L]
        /\ (AfterElem /\ as_gpu_bytes(Elem, L).bytes = <<>>) => buf[L] = prev[L]

\* An empty value declaring alignment 16 written into a borrowed accumulator
\* of 4 bytes and alignment 4.
C6_Witness ==
    /\ origin = "from_slice"
    /\ LastIs("write")
    /\ Last.data = Empty16
    /\ \A L \in Layouts :
           /\ ~buf[L].owned
           /\ buf[L].alignment = 4
           /\ Len(buf[L].bytes) = 4

\* The empty element of an array, visited when the accumulator holds 16 bytes.
C6_WitnessElem ==
    /\ AfterElem
    /\ Elem = Empty16
    /\ \A L \in Layouts : Len(buf[L].bytes) = 16 /\ buf[L].alignment = 16

\* C7: a write of a non-empty value of alignment a into an accumulator of n
\* bytes keeps the n bytes, appends roundup(n, a) - n zero bytes (fewer than a)
\* and then the value's bytes; two 3-component vectors finalize to 32 bytes,
\* 4 zero bytes after each vector.
C7_WritePadsThenAppends ==
    \A L \in Layouts :
        /\ LastIs("write") =>
               LET d == as_gpu_bytes(Last.data, L)
                   n == Len(prev[L].bytes)
                   pad == RoundUp(n, d.alignment) - n
               IN  d.bytes # <<>> =>
                       /\ pad < d.alignment
                       /\ buf[L].bytes = prev[L].bytes \o repeat_n(pad) \o d.bytes
        /\ (origin = "empty" /\ Len(trace) = 3 /\ trace[1] = Call("write", V3, 0)
                /\ trace[2] = Call("write", V3, 0) /\ LastIs("as_slice")) =>
               ret[L] = bytes_of(<<-1, -1, -1, 0, -1, -1, -1, 0>>)

\* The second of two 3-component vectors: 4 zero bytes, then its 12 bytes.
C7_Witness ==
    /\ origin = "empty"
    /\ Len(trace) = 2
    /\ trace[1] = Call("write", V3, 0)
    /\ trace[2] = Call("write", V3, 0)
    /\ \A L \in Layouts : Len(prev[L].bytes) = 12 /\ Len(buf[L].bytes) = 28

(***************************************************************************)
(* C8: the two layouts differ in the array rule only                       *)
(***************************************************************************)
RECURSIVE HasArray(_)
HasArray(v) ==
    \/ v.kind = "array"
    \/ \E k \in DOMAIN v.children : HasArray(v.children[k])

\* Every call so far is as_slice or a write of a value that holds no array.
ArrayFree ==
    \A k \in DOMAIN trace :
        \/ trace[k].op = "as_slice"
        \/ trace[k].op = "write" /\ ~HasArray(trace[k].data)

\* C8: after single-value writes of values that hold no array, the Std140 and
\* the Std430 accumulator hold the same bytes and the same alignment, and
\* as_slice returns the same bytes.
C8_LayoutsAgreeWithoutArrays ==
    ArrayFree =>
        /\ buf["Std140"].bytes = buf["Std430"].bytes
        /\ buf["Std140"].alignment = buf["Std430"].alignment
        /\ ret["Std140"] = ret["Std430"]

\* A record, a 3x3 matrix, then as_slice.
C8_Witness ==
    /\ ArrayFree
    /\ Len(trace) = 3
    /\ trace[1].data = TestA
    /\ trace[2].data = M3
    /\ LastIs("as_slice")
    /\ Len(ret["Std140"]) = 64

(***************************************************************************)
(* C9: records                                                             *)
(***************************************************************************)
\* Every call so far is a single-value write.
OnlyWrites == \A k \in DOMAIN trace : trace[k].op = "write"

\* The values written so far, in order.
Written == [k \in DOMAIN trace |-> trace[k].data]

\* The fields of a record whose bytes are not empty, under layout L.
NonEmptyFields(fields, L) ==
    {k \in DOMAIN fields : as_gpu_bytes(fields[k], L).bytes # <<>>}

\* C9: the serialized form of a record is the accumulator obtained from
\* empty() by writing the fields in declaration order, not finalized: it ends
\* with the bytes of its last non-empty field, and its alignment is the
\* maximum of 4 and the alignments of its non-empty fields.  Finalized under
\* Std140, {3-component vector, scalar} has 16 bytes and a record holding an
\* array of two scalars has 32.
C9_RecordIsFieldsWrittenInOrder ==
    /\ (origin = "empty" /\ OnlyWrites) =>
           \A L \in Layouts :
               LET r == as_gpu_bytes(Struct(Written), L)
                   ne == NonEmptyFields(Written, L)
               IN  /\ r.bytes = buf[L].bytes
                   /\ r.alignment = buf[L].alignment
                   /\ r.alignment =
                          MaxOf({4} \cup {as_gpu_bytes(Written[k], L).alignment : k \in ne})
                   /\ ne # {} =>
                          LET f == as_gpu_bytes(Written[MaxOf(ne)], L).bytes
                          IN  SubSeq(r.bytes, Len(r.bytes) - Len(f) + 1, Len(r.bytes)) = f
    /\ (origin = "empty" /\ Len(trace) = 2 /\ LastIs("as_slice")) =>
           /\ trace[1] = Call("write", TestA, 0) => Len(ret["Std140"]) = 16
           /\ trace[1] = Call("write", TestB, 0) => Len(ret["Std140"]) = 32

\* The fields of {scalar, 2-component vector, 3-component vector} written in
\* order: the scalar, 4 zero bytes, the 2-vector at 8, the 3-vector at 16, and
\* nothing after its 12 bytes.
C9_Witness ==
    /\ origin = "empty"
    /\ OnlyWrites
    /\ Written = <<S, V2, V3>>
    /\ \A L \in Layouts :
           /\ as_gpu_bytes(Struct(Written), L).bytes = buf[L].bytes
           /\ Len(buf[L].bytes) = 28
           /\ buf[L].alignment = 16

(***************************************************************************)
(* C10: matrices                                                           *)
(***************************************************************************)
\* The columns laid one after the other, each at the next multiple of its
\* alignment.
RECURSIVE Columns(_, _)
Columns(cols, acc) ==
    IF cols = <<>>
    THEN acc
    ELSE LET c == Head(cols)
         IN  Columns(Tail(cols),
                     acc \o repeat_n(RoundUp(Len(acc), c.alignment) - Len(acc))
                         \o bytes_of(c.data))

\* The values written so far are the columns of one matrix.
ColumnsWritten ==
    /\ OnlyWrites
    /\ Len(trace) >= 2
    /\ \A k \in DOMAIN trace : trace[k].data.kind = "vec" /\ trace[k].data = trace[1].data
    /\ Len(trace[1].data.data) = Len(trace)

\* C10: a matrix serializes as its columns written one by one into an empty
\* accumulator, never by the array rule: the same bytes and alignment under
\* both layouts, no 16-byte slots under Std140 (a 2x2 matrix has 16 bytes and
\* alignment 8), and the alignment of one column.
C10_MatrixIsColumnsWritten ==
    /\ (LastIs("write") /\ Last.data.kind = "mat") =>
           \A L \in Layouts :
               LET m == as_gpu_bytes(Last.data, L)
                   cols == Last.data.children
                   n == Len(prev[L].bytes)
               IN  /\ m.bytes = Columns(cols, <<>>)
                   /\ m.alignment = cols[1].alignment
                   /\ m.bytes = as_gpu_bytes(Last.data, "Std430").bytes
                   /\ m.alignment = as_gpu_bytes(Last.data, "Std430").alignment
                   /\ Last.data = M2 => Len(m.bytes) = 16 /\ m.alignment = 8
                   /\ buf[L].bytes =
                          prev[L].bytes \o repeat_n(RoundUp(n, m.alignment) - n) \o m.bytes
    /\ (origin = "empty" /\ ColumnsWritten) =>
           \A L \in Layouts :
               LET m == as_gpu_bytes(Mat(Written), L)
               IN  m.bytes = buf[L].bytes /\ m.alignment = buf[L].alignment

\* A 2x2 matrix written under Std140 after a scalar: 4 zero bytes and its 16
\* bytes, 24 in all.
C10_Witness ==
    /\ origin = "empty"
    /\ Len(trace) = 2
    /\ trace[1] = Call("write", S, 0)
    /\ trace[2] = Call("write", M2, 0)
    /\ Len(buf["Std140"].bytes) = 24
    /\ buf["Std140"].alignment = 8

\* The three columns of a 3x3 matrix written one by one: 44 bytes.
C10_WitnessColumns ==
    /\ origin = "empty"
    /\ ColumnsWritten
    /\ Written = <<V3, V3, V3>>
    /\ Len(buf["Std140"].bytes) = 44

(***************************************************************************)
(* C11: the accumulator after as_slice                                     *)
(***************************************************************************)
\* C11 as stated: once as_slice has returned the bytes of an accumulator, no
\* write, write_array or as_slice is applied to that accumulator again.
C11_NoCallAfterAsSlice ==
    \A j, k \in DOMAIN trace :
        (j < k /\ trace[j].op = "as_slice") =>
            trace[k].op \notin {"write", "write_array", "as_slice"}

(***************************************************************************)
(* C12: padding is idempotent                                              *)
(***************************************************************************)
\* C12: align_to(a) on an accumulator whose length is a multiple of a appends
\* nothing and changes nothing, and an as_slice that follows an as_slice
\* returns the bytes the first one returned.
C12_PaddingIsIdempotent ==
    \A L \in Layouts :
        /\ (LastIs("align_to") /\ Len(prev[L].bytes) % Last.alignment = 0) =>
               buf[L] = prev[L]
        /\ (Len(trace) >= 2 /\ LastIs("as_slice") /\ trace[Len(trace) - 1].op = "as_slice") =>
               /\ buf[L] = prev[L]
               /\ ret[L] = prev[L].bytes

\* A 3-component vector, as_slice, as_slice: 16 bytes both times.
C12_Witness ==
    /\ origin = "empty"
    /\ Len(trace) = 3
    /\ trace[1] = Call("write", V3, 0)
    /\ trace[2].op = "as_slice"
    /\ trace[3].op = "as_slice"
    /\ \A L \in Layouts : Len(ret[L]) = 16 /\ Len(prev[L].bytes) = 16

(***************************************************************************)
(* C13: the alignment an array leaves under Std140                         *)
(***************************************************************************)
\* C13 as stated: under Std140 each array element is merged with its
\* alignment rounded up to 16, so once write_array has written a non-empty
\* element the accumulator's alignment is a multiple of 16, and an array of
\* 4-byte scalars written as a field of a record reports alignment 16.
C13_Std140ArrayAlignmentIs16 ==
    /\ JustPlaced("Std140") =>
           padded_elem("Std140", Elem).alignment =
               RoundUp(as_gpu_bytes(Elem, "Std140").alignment, 16)
    /\ (LastIs("write_array") /\ placed["Std140"] # <<>>) =>
           /\ buf["Std140"].alignment >= 16
           /\ buf["Std140"].alignment % 16 = 0
    /\ (LastIs("write") /\ Last.data = TestB) =>
           /\ as_gpu_bytes(TestB.children[1], "Std140").alignment = 16
           /\ buf["Std140"].alignment >= 16

(***************************************************************************)
(* C14: the accumulator is append-only                                     *)
(***************************************************************************)
\* The bytes the last step appended.
Added(L) == Slice(L, Len(prev[L].bytes), Len(buf[L].bytes))

\* C14: every operation keeps the bytes that were there as a prefix, never
\* shortens the buffer, and appends only zero bytes and the bytes of the
\* value it writes, verbatim.
C14_AppendOnly ==
    \A L \in Layouts :
        /\ Len(prev[L].bytes) <= Len(buf[L].bytes)
        /\ SubSeq(buf[L].bytes, 1, Len(prev[L].bytes)) = prev[L].bytes
        /\ trace = <<>> => Added(L) = <<>>
        /\ LastIs("write") =>
               LET raw == as_gpu_bytes(Last.data, L).bytes
                   pad == Len(Added(L)) - Len(raw)
               IN  IF raw = <<>>
                   THEN Added(L) = <<>>
                   ELSE pad >= 0 /\ Added(L) = repeat_n(pad) \o raw
        /\ LastIs("write_array") =>
               IF JustPlaced(L)
               THEN LET at == LastPlaced(L).at
                        raw == as_gpu_bytes(Elem, L).bytes
                    IN  /\ at >= Len(prev[L].bytes)
                        /\ AllZero(Slice(L, Len(prev[L].bytes), at))
                        /\ Slice(L, at, at + Len(raw)) = raw
                        /\ AllZero(Slice(L, at + Len(raw), Len(buf[L].bytes)))
               ELSE Added(L) = <<>>
        /\ (LastIs("align_to") \/ LastIs("as_slice")) => AllZero(Added(L))

\* The second element of an array under Std140, the accumulator holding 20
\* bytes: 4 zero bytes, the element's 4 bytes at 24, 12 zero bytes.
C14_Witness ==
    /\ JustPlaced("Std140")
    /\ ElemIndex = 2
    /\ Len(prev["Std140"].bytes) = 20
    /\ LastPlaced("Std140").at = 24
    /\ Len(buf["Std140"].bytes) = 40
    /\ Slice("Std140", 24, 28) = <<5, 6, 7, 8>>

(***************************************************************************)
(* C15: Std430 is never longer than Std140                                 *)
(***************************************************************************)
\* C15: driven by the same calls, the Std430 accumulator is never longer than
\* the Std140 accumulator, and the bytes as_slice returns under Std430 are
\* never more than under Std140.
C15_Std430NeverLonger ==
    /\ Len(buf["Std430"].bytes) <= Len(buf["Std140"].bytes)
    /\ LastIs("as_slice") => Len(ret["Std430"]) <= Len(ret["Std140"])

\* An array of two scalars, then as_slice: 8 bytes under Std430, 32 under
\* Std140.
C15_Witness ==
    /\ origin = "empty"
    /\ Len(trace) = 2
    /\ trace[1] = Call("write_array", Array(<<S, S>>), 0)
    /\ LastIs("as_slice")
    /\ Len(ret["Std430"]) = 8
    /\ Len(ret["Std140"]) = 32

(***************************************************************************)
(* C16: borrowed and owned storage                                         *)
(***************************************************************************)
\* The last step applied to accumulator b under layout L.
Apply(L, b) ==
    CASE LastIs("write")       -> write(L, b, Last.data)
      [] AfterElem             -> write_elem(L, b, Elem)
      [] LastIs("align_to")    -> align_to(b, Last.alignment)
      [] LastIs("as_slice")    -> align(b)
      [] OTHER                 -> b

\* C16: storage goes from borrowed to owned only, a borrowed buffer stays
\* borrowed through align_to and as_slice when no padding is needed and
\* becomes owned exactly when a step appends a byte, a GpuBytes viewed as a
\* value is borrowed, and the bytes are those of an accumulator that owned
\* its storage from the start.
C16_BorrowedUntilAppend ==
    \A L \in Layouts :
        /\ prev[L].owned => buf[L].owned
        /\ ~prev[L].owned => (buf[L].owned <=> Len(buf[L].bytes) > Len(prev[L].bytes))
        /\ (LastIs("align_to") /\ Len(prev[L].bytes) % Last.alignment = 0) =>
               buf[L].owned = prev[L].owned
        /\ (LastIs("as_slice") /\ Len(prev[L].bytes) % prev[L].alignment = 0) =>
               buf[L].owned = prev[L].owned
        /\ AfterElem =>
               LET e == as_gpu_bytes(Elem, L)
                   p == padded_elem(L, Elem)
               IN  /\ e.owned => p.owned
                   /\ ~e.owned => (p.owned <=> Len(p.bytes) > Len(e.bytes))
                   /\ ~as_gpu_bytes(AsValue(p), L).owned
        /\ trace # <<>> =>
               LET o == Apply(L, [prev[L] EXCEPT !.owned = TRUE])
               IN  /\ o.bytes = buf[L].bytes
                   /\ o.alignment = buf[L].alignment
                   /\ LastIs("as_slice") => ret[L] = o.bytes

\* A borrowed slice of 12 bytes and alignment 16: still borrowed after
\* align_to(4), owned after as_slice has appended 4 zero bytes.
C16_Witness ==
    /\ origin = "from_slice"
    /\ Len(trace) = 2
    /\ trace[1] = Call("align_to", NoData, 4)
    /\ LastIs("as_slice")
    /\ \A L \in Layouts :
           /\ ~prev[L].owned
           /\ buf[L].owned
           /\ Len(prev[L].bytes) = 12
           /\ Len(ret[L]) = 16

(***************************************************************************)
(* C17                                                                     *)
(***************************************************************************)
RECURSIVE IsPowerOfTwo(_), AlignmentsOk(_), AllOk(_)

IsPowerOfTwo(n) ==
    /\ n >= 1
    /\ n = 1 \/ (n % 2 = 0 /\ IsPowerOfTwo(n \div 2))

\* Every alignment a value carries is a power of two.
AlignmentsOk(v) ==
    /\ v.kind = "gpubytes" => IsPowerOfTwo(v.alignment)
    /\ AllOk(v.children)

AllOk(items) ==
    items = <<>> \/ (AlignmentsOk(Head(items)) /\ AllOk(Tail(items)))

\* The arguments of a call meet the precondition of its operation.
WellFormed(call) ==
    CASE call.op = "align_to"                -> IsPowerOfTwo(call.alignment)
      [] call.op \in {"write", "write_array"} -> AlignmentsOk(call.data)
      [] OTHER                                -> TRUE

\* C17: on an accumulator built from empty(), no operation whose alignments
\* are powers of two (at least 1) panics: a call that panicked carried an
\* alignment that is not one, and no operation panics on the accumulator's
\* own alignment.  A value of zero length never makes `write` panic: it is
\* skipped, whatever its alignment.
C17_OperationsAreTotal ==
    /\ (origin = "empty" /\ Panicked) => ~WellFormed(panic)
    /\ origin = "empty" => \A L \in Layouts : IsPowerOfTwo(buf[L].alignment)
    /\ (Panicked /\ panic.op = "write" /\ panic.data.kind = "gpubytes") =>
           panic.data.data # <<>>
    /\ ~Panicked => \A L \in Layouts : ~write_panics(L, buf[L], BadEmpty)

\* Three well-formed calls, one of them a write of a zero-length value, one an
\* array of three elements of which one is empty, ran to the end without a
\* panic.
C17_Witness ==
    /\ origin = "empty"
    /\ ~Panicked
    /\ Idle
    /\ Len(trace) = 3
    /\ trace[1] = Call("write", Empty16, 0)
    /\ trace[2].op = "write_array" /\ Len(trace[2].data.children) = 3
    /\ trace[3].op = "as_slice"
    /\ Len(ret["Std140"]) = 32

\* A malformed call did panic: the precondition is needed.
C17_WitnessPanic ==
    /\ origin = "empty"
    /\ panic = Call("align_to", NoData, 0)
    /\ trace # <<>>

====
